---- MODULE Spec2Model ----
(***************************************************************************)
(* Registration fitness / information estimator                            *)
(* (hdl_graph_slam::InformationMatrixCalculator) and the Localization      *)
(* controller of lidar-slam-detection.                                     *)
(*                                                                         *)
(* Numbers.  Point coordinates are integers on a 5 cm grid (1 unit = 1/20  *)
(* m).  Every double/float of the program is an exact rational             *)
(* [n |-> numerator, d |-> denominator > 0]; rounding of float is not      *)
(* modelled.  Squared distances are returned in m^2 (units^2 / 400).       *)
(***************************************************************************)
EXTENDS Integers, Sequences, FiniteSets, TLC

VARIABLES
  X, Y,                  \* the two point clouds of the run
  relpose,               \* Eigen::Isometry3d relpose (its name in Poses)
  floor_height,          \* const double& floor_height
  max_range,             \* double max_range
  use_const_inf_matrix,  \* InformationMatrixCalculator::use_const_inf_matrix
  kd_tree_,              \* the input cloud of the static kd_tree_
  inliers,               \* inliers->indices of the caller's container
  op,                    \* the operation that returned last
  who,                   \* the caller that made it
  ret,                   \* its return value (a rational)
  nr,                    \* int& nr of fitness_score
  nn,                    \* nn_indices[0] of every iteration of its loop (0 based)
  inliers0,              \* inliers->indices when fitness_score was entered
  inf,                   \* the matrix calc_information_matrix returned
  scored,                \* whether that call computed a fitness score
  fault,                 \* the operation ran into undefined behaviour
  ncalls,                \* fitness_score calls made so far
  pc,                    \* position of each caller sharing kd_tree_
  mInitialized,          \* Localization::mInitialized
  mFailureLocalizeCount, \* Localization::mFailureLocalizeCount
  ctl,                   \* state of the Localization controller
  threshold,             \* configured failure limit
  seeded,                \* setInitPose or setInitPoseRange was called
  prior,                 \* a motion prior waits for the next registration
  mPoseQueue,            \* number of poses waiting in mPoseQueue
  frame                  \* what the last feedPointData did

estVars == <<X, Y, relpose, floor_height, max_range, use_const_inf_matrix,
             kd_tree_, inliers, op, who, ret, nr, nn, inliers0,
             inf, scored, fault, ncalls, pc>>
ctlVars == <<mInitialized, mFailureLocalizeCount, ctl, threshold, seeded, prior,
             mPoseQueue, frame>>
vars == <<estVars, ctlVars>>

----------------------------------------------------------------------------
(* Bounds of the model *)

MaxLen == 2
MaxCalls == 2
MaxThreshold == 2
MaxQueue == 2

----------------------------------------------------------------------------
(* Exact rationals *)

RECURSIVE Gcd(_, _)
Gcd(a, b) == IF b = 0 THEN a ELSE Gcd(b, a % b)

Abs(v) == IF v < 0 THEN -v ELSE v

R(a, b) ==
  LET g == Gcd(Abs(a), b)
  IN  IF a = 0 THEN [n |-> 0, d |-> 1] ELSE [n |-> a \div g, d |-> b \div g]

RatAdd(a, b) == R(a.n * b.d + b.n * a.d, a.d * b.d)
RatSub(a, b) == R(a.n * b.d - b.n * a.d, a.d * b.d)
RatMul(a, b) == R(a.n * b.n, a.d * b.d)
\* a / b for b > 0
RatDiv(a, b) == R(a.n * b.d, a.d * b.n)
RatLE(a, b) == a.n * b.d <= b.n * a.d
RatLT(a, b) == a.n * b.d < b.n * a.d
RatEq(a, b) == a.n * b.d = b.n * a.d
RatAbs(a) == [n |-> Abs(a.n), d |-> a.d]
Zero == [n |-> 0, d |-> 1]
One == [n |-> 1, d |-> 1]

\* std::numeric_limits<double>::max(): larger than every sum of distances
\* the bounded clouds can produce.
DBL_MAX == 1000000
Sentinel == [n |-> DBL_MAX, d |-> 1]

----------------------------------------------------------------------------
(* Points, clouds, poses *)

\* the origin; 0.5 m above it; 0.1 m above it; 3.5 m beside it
Points == << <<0, 0, 0>>, <<0, 0, 10>>, <<0, 0, 2>>, <<70, 0, 0>> >>

\* clouds of up to MaxLen of these points, in the order of Points
Clouds ==
  { [i \in 1..Len(pick) |-> Points[pick[i]]] :
      pick \in { q \in UNION { [1..k -> 1..Len(Points)] : k \in 0..MaxLen } :
                   \A i, j \in 1..Len(q) : i < j => q[i] < q[j] } }

\* rigid transforms: the identity, 0.5 m up, a quarter turn about the x axis
Poses == { "Identity", "Lift", "RollX" }
Isometry(name) ==
  CASE name = "Identity" ->
         [R |-> << <<1, 0, 0>>, <<0, 1, 0>>, <<0, 0, 1>> >>, t |-> <<0, 0, 0>>]
    [] name = "Lift" ->
         [R |-> << <<1, 0, 0>>, <<0, 1, 0>>, <<0, 0, 1>> >>, t |-> <<0, 0, 10>>]
    [] name = "RollX" ->
         [R |-> << <<1, 0, 0>>, <<0, 0, -1>>, <<0, 1, 0>> >>, t |-> <<0, 0, 0>>]

\* metres
FloorHeights == { R(1, 1), R(-3, 2) }
\* m^2; the default argument is the maximum double
MaxRanges == { R(0, 1), R(1, 100), Sentinel }

\* pcl::transformPoint / pcl::transformPointCloud
transformPoint(p, pose) ==
  LET T == Isometry(pose)
  IN
  << T.R[1][1] * p[1] + T.R[1][2] * p[2] + T.R[1][3] * p[3] + T.t[1],
     T.R[2][1] * p[1] + T.R[2][2] * p[2] + T.R[2][3] * p[3] + T.t[2],
     T.R[3][1] * p[1] + T.R[3][2] * p[2] + T.R[3][3] * p[3] + T.t[3] >>

transformPointCloud(cloud, pose) ==
  [i \in 1..Len(cloud) |-> transformPoint(cloud[i], pose)]

\* squared Euclidean distance in grid units
SqDist(p, q) ==
  (p[1] - q[1]) * (p[1] - q[1]) + (p[2] - q[2]) * (p[2] - q[2])
    + (p[3] - q[3]) * (p[3] - q[3])

\* nearestKSearch(p, 1, ...) over a non-empty input cloud: the squared
\* distance it reports (m^2) and the indices it may report (1 based; equal
\* distances are resolved by the tree's layout).
MinSqDist(tree, p) ==
  CHOOSE m \in { SqDist(tree[j], p) : j \in 1..Len(tree) } :
    \A j \in 1..Len(tree) : m <= SqDist(tree[j], p)

nearestKSearchDist(tree, p) == R(MinSqDist(tree, p), 400)

nearestKSearchIndex(tree, p) ==
  { j \in 1..Len(tree) : SqDist(tree[j], p) = MinSqDist(tree, p) }

----------------------------------------------------------------------------
(* InformationMatrixCalculator: configuration set by the constructor *)

const_stddev_x == R(1, 2)
const_stddev_q == R(1, 10)
var_gain_a == R(20, 1)
min_stddev_x == R(1, 10)
max_stddev_x == R(5, 1)
min_stddev_q == R(1, 20)
max_stddev_q == R(1, 5)
fitness_score_thresh == R(1, 2)

\* the default of calc_fitness_score's max_range argument
default_max_range == Sentinel

\* weight(a, max_x, min_y, max_y, x): from fitness score to variance, rising
\* from min_y at score 0 through the midpoint at max_x and saturating at
\* max_y; never outside [min_y, max_y].
weight(a, max_x, min_y, max_y, x) ==
  LET full == RatMul(R(2, 1), max_x)
      y == IF RatLE(full, x) THEN One ELSE RatDiv(x, full)
  IN  RatAdd(min_y, RatMul(RatSub(max_y, min_y), y))

----------------------------------------------------------------------------
(* calc_fitness_score *)

\* if(nn_dists[0] <= max_range)
AcceptStrict(dist, range) == RatLT(dist, range)
Accept(dist, range) == RatLE(dist, range)

\* the search of a scan point: undefined when the index holds no point
SearchUndefined(tree, scan) == Len(tree) = 0 /\ Len(scan) > 0

\* for(i ...) { nearestKSearch; if(...) { fitness_score += nn_dists[0]; nr++; } }
RECURSIVE FitnessLoop(_, _, _, _, _, _)
FitnessLoop(tree, pts, range, i, sum, n) ==
  IF i > Len(pts) THEN [sum |-> sum, nr |-> n]
  ELSE LET dist == nearestKSearchDist(tree, pts[i])
       IN  IF Accept(dist, range)
           THEN FitnessLoop(tree, pts, range, i + 1, RatAdd(sum, dist), n + 1)
           ELSE FitnessLoop(tree, pts, range, i + 1, sum, n)

\* if(nr > 0) return fitness_score / nr; else return max()
MeanOrMax(acc) == IF acc.nr > 0 THEN RatDiv(acc.sum, R(acc.nr, 1)) ELSE Sentinel

\* the value returned, and the count nr of the accepted points
calc_fitness_score(c1, c2, pose, range) ==
  LET input_transformed == transformPointCloud(c2, pose)
      acc == FitnessLoop(c1, input_transformed, range, 1, Zero, 0)
  IN  [ret |-> MeanOrMax(acc), nr |-> acc.nr]

----------------------------------------------------------------------------
(* calc_information_matrix, const_information_matrix *)

\* Eigen::MatrixXd::Identity(6, 6)
Identity6 == [i \in 1..6 |-> [j \in 1..6 |-> IF i = j THEN One ELSE Zero]]

\* inf.topLeftCorner(3, 3).array() /= x; inf.bottomRightCorner(3, 3).array() /= q
DivideBlocks(m, x, q) ==
  [i \in 1..6 |-> [j \in 1..6 |->
     IF i <= 3 /\ j <= 3 THEN RatDiv(m[i][j], x)
     ELSE IF i > 3 /\ j > 3 THEN RatDiv(m[i][j], q)
     ELSE m[i][j]]]

const_information_matrix == DivideBlocks(Identity6, const_stddev_x, const_stddev_q)

WeightX(score) ==
  weight(var_gain_a, fitness_score_thresh, RatMul(min_stddev_x, min_stddev_x),
         RatMul(max_stddev_x, max_stddev_x), score)
WeightQ(score) ==
  weight(var_gain_a, fitness_score_thresh, RatMul(min_stddev_q, min_stddev_q),
         RatMul(max_stddev_q, max_stddev_q), score)

\* the slips a plausible edit makes: the constant blocks divided by the
\* variances; w_x used for both blocks
calc_information_matrix_Variance(c1, c2, pose) ==
  IF use_const_inf_matrix
  THEN [inf |-> DivideBlocks(Identity6, RatMul(const_stddev_x, const_stddev_x),
                             RatMul(const_stddev_q, const_stddev_q)),
        scored |-> FALSE, score |-> Zero]
  ELSE LET fitness_score == calc_fitness_score(c1, c2, pose, default_max_range).ret
           w_x == WeightX(fitness_score)
           w_q == WeightQ(fitness_score)
       IN  [inf |-> DivideBlocks(Identity6, w_x, w_q),
            scored |-> TRUE, score |-> fitness_score]
calc_information_matrix_OneWeight(c1, c2, pose) ==
  IF use_const_inf_matrix
  THEN [inf |-> DivideBlocks(Identity6, const_stddev_x, const_stddev_q),
        scored |-> FALSE, score |-> Zero]
  ELSE LET fitness_score == calc_fitness_score(c1, c2, pose, default_max_range).ret
           w_x == WeightX(fitness_score)
       IN  [inf |-> DivideBlocks(Identity6, w_x, w_x),
            scored |-> TRUE, score |-> fitness_score]

\* the matrix returned, whether a fitness score was computed, and the score
calc_information_matrix(c1, c2, pose) ==
  IF use_const_inf_matrix
  THEN [inf |-> DivideBlocks(Identity6, const_stddev_x, const_stddev_q),
        scored |-> FALSE, score |-> Zero]
  ELSE LET fitness_score == calc_fitness_score(c1, c2, pose, default_max_range).ret
           w_x == WeightX(fitness_score)
           w_q == WeightQ(fitness_score)
       IN  [inf |-> DivideBlocks(Identity6, w_x, w_q),
            scored |-> TRUE, score |-> fitness_score]

----------------------------------------------------------------------------
(* rebuild_kd_tree, fitness_score *)

\* if (horizon_dist <= 10.0 && p1.z < floor_height_max && p2.z < floor_height_max
\*     && fabs(p1.z - p2.z) > 0.25); p1, p2 on the grid, the thresholds in metres
IsAnomaly_NoFabs(p1, p2, floor_height_max) ==
  LET dx == p1[1] - p2[1]
      dy == p1[2] - p2[2]
      horizon_dist == R(dx * dx + dy * dy, 400)
  IN  /\ RatLE(horizon_dist, R(10, 1))
      /\ RatLT(R(p1[3], 20), floor_height_max)
      /\ RatLT(R(p2[3], 20), floor_height_max)
      /\ RatLT(R(1, 4), R(p1[3] - p2[3], 20))
IsAnomaly(p1, p2, floor_height_max) ==
  LET dx == p1[1] - p2[1]
      dy == p1[2] - p2[2]
      horizon_dist == R(dx * dx + dy * dy, 400)
  IN  /\ RatLE(horizon_dist, R(10, 1))
      /\ RatLT(R(p1[3], 20), floor_height_max)
      /\ RatLT(R(p2[3], 20), floor_height_max)
      /\ RatLT(R(1, 4), RatAbs(R(p1[3] - p2[3], 20)))

\* what the searches of the scan points may report: one index of the tree's
\* cloud per scan point (1 based), each a nearest point of that cloud
SearchResults(tree, scan) ==
  { idx \in [1..Len(scan) -> 1..Len(tree)] :
      \A i \in 1..Len(scan) : idx[i] \in nearestKSearchIndex(tree, scan[i]) }

\* cloud1->points[nn_indices[0]] reads past the end of cloud1
ReadsPastEnd(c1, idx) == \E i \in 1..Len(idx) : idx[i] > Len(c1)

\* the loop of fitness_score, given the index each search reported
RECURSIVE ScoreLoop(_, _, _, _, _, _, _, _, _, _, _)
ScoreLoop(tree, c1, c2, relative, floor_height_max, range, idx, i, sum, n, indices) ==
  IF i > Len(c2) THEN [sum |-> sum, nr |-> n, indices |-> indices]
  ELSE LET dist == R(SqDist(tree[idx[i]], c2[i]), 400)
           hit == RatLE(dist, range)
           p1 == transformPoint(c1[idx[i]], relative)
           p2 == transformPoint(c2[i], relative)
       IN  ScoreLoop(tree, c1, c2, relative, floor_height_max, range, idx, i + 1,
                     IF hit THEN RatAdd(sum, dist) ELSE sum,
                     IF hit THEN n + 1 ELSE n,
                     IF IsAnomaly(p1, p2, floor_height_max)
                     THEN Append(indices, i - 1) ELSE indices)

\* the value returned, nr and inliers->indices, for a container that holds
\* `indices` on entry
fitness_score(tree, c1, c2, pose, floor, range, idx, indices) ==
  LET floor_height_max == RatAdd(floor, R(2, 1))
      acc == ScoreLoop(tree, c1, c2, pose, floor_height_max, range, idx, 1, Zero, 0, indices)
  IN  [ret |-> MeanOrMax(acc), nr |-> acc.nr, indices |-> acc.indices]

\* what a run into undefined behaviour may leave behind
Garbage == { [ret |-> Sentinel, nr |-> 0, flag |-> FALSE],
             [ret |-> Zero, nr |-> 1, flag |-> TRUE] }

----------------------------------------------------------------------------
(* The operations *)

\* caller 1 scores scan cloud Y against map cloud X, caller 2 scores X against Y
Callers == {1, 2}
CallerMap(c) == IF c = 1 THEN X ELSE Y
CallerScan(c) == IF c = 1 THEN Y ELSE X
\* the cloud arguments of the operation that returned last
cloud1 == CallerMap(who)
cloud2 == CallerScan(who)

\* what the caller sees when an operation returns
Returned(o, c, r, n, idx, in0, m, s, f) ==
  /\ op' = o /\ who' = c /\ ret' = r /\ nr' = n /\ nn' = idx
  /\ inliers0' = in0 /\ inf' = m /\ scored' = s /\ fault' = f

RebuildKdTree(c) ==
  /\ ~fault
  /\ kd_tree_' = c
  /\ Returned("rebuild_kd_tree", 1, Zero, 0, <<>>, <<>>, <<>>, FALSE, FALSE)
  /\ UNCHANGED <<X, Y, relpose, floor_height, max_range, use_const_inf_matrix,
                 inliers, ncalls, pc, ctlVars>>

CalcFitnessScore ==
  /\ ~fault
  /\ IF SearchUndefined(X, Y)
     THEN \E g \in Garbage :
            Returned("calc_fitness_score", 1, g.ret, g.nr, <<>>, <<>>, <<>>, TRUE, TRUE)
     ELSE LET out == calc_fitness_score(X, Y, relpose, max_range)
          IN  Returned("calc_fitness_score", 1, out.ret, out.nr, <<>>, <<>>, <<>>, TRUE, FALSE)
  /\ UNCHANGED <<X, Y, relpose, floor_height, max_range, use_const_inf_matrix,
                 kd_tree_, inliers, ncalls, pc, ctlVars>>

\* fitness_score(c1, c2, relpose, floor_height, nr, inliers, max_range) by
\* caller c on a container that holds `indices`
DoFitnessScore(c, c1, c2, indices) ==
  /\ ~fault
  /\ IF Len(c2) = 0
     THEN /\ inliers' = indices
          /\ Returned("fitness_score", c, Sentinel, 0, <<>>, indices, <<>>, TRUE, FALSE)
     ELSE IF Len(kd_tree_) = 0
     THEN \E g \in Garbage :
            /\ inliers' = IF g.flag THEN Append(indices, 0) ELSE indices
            /\ Returned("fitness_score", c, g.ret, g.nr, <<>>, indices, <<>>, TRUE, TRUE)
     ELSE \E idx \in SearchResults(kd_tree_, c2) :
            LET reported == [i \in 1..Len(idx) |-> idx[i] - 1]
            IN  IF ReadsPastEnd(c1, idx)
                THEN \E g \in Garbage :
                       /\ inliers' = IF g.flag THEN Append(indices, 0) ELSE indices
                       /\ Returned("fitness_score", c, g.ret, g.nr, reported, indices,
                                   <<>>, TRUE, TRUE)
                ELSE LET out == fitness_score(kd_tree_, c1, c2, relpose, floor_height,
                                              max_range, idx, indices)
                     IN  /\ inliers' = out.indices
                         /\ Returned("fitness_score", c, out.ret, out.nr, reported,
                                     indices, <<>>, TRUE, FALSE)
  /\ UNCHANGED <<X, Y, relpose, floor_height, max_range, use_const_inf_matrix,
                 kd_tree_, ctlVars>>

\* a call that hands in a container holding `indices`
FitnessScore(indices) ==
  /\ DoFitnessScore(1, X, Y, indices)
  /\ UNCHANGED <<ncalls, pc>>

\* a call that hands in the container of the caller's last call, or a new one
FitnessScoreAgain(reuse) ==
  /\ ncalls < MaxCalls
  /\ ncalls' = ncalls + 1
  /\ DoFitnessScore(1, X, Y, IF reuse THEN inliers ELSE <<>>)
  /\ UNCHANGED pc

CalcInformationMatrix ==
  /\ ~fault
  /\ IF ~use_const_inf_matrix /\ SearchUndefined(X, Y)
     THEN \E g \in Garbage :
            Returned("calc_information_matrix", 1, g.ret, 0, <<>>, <<>>,
                     DivideBlocks(Identity6, WeightX(g.ret), WeightQ(g.ret)), TRUE, TRUE)
     ELSE LET out == calc_information_matrix(X, Y, relpose)
          IN  Returned("calc_information_matrix", 1, out.score, 0, <<>>, <<>>,
                       out.inf, out.scored, FALSE)
  /\ UNCHANGED <<X, Y, relpose, floor_height, max_range, use_const_inf_matrix,
                 kd_tree_, inliers, ncalls, pc, ctlVars>>

ConstInformationMatrix ==
  /\ ~fault
  /\ Returned("const_information_matrix", 1, Zero, 0, <<>>, <<>>,
              const_information_matrix, FALSE, FALSE)
  /\ UNCHANGED <<X, Y, relpose, floor_height, max_range, use_const_inf_matrix,
                 kd_tree_, inliers, ncalls, pc, ctlVars>>

\* the configuration switches between the constant and the fitness-based matrix
Load(b) ==
  /\ ~fault
  /\ use_const_inf_matrix # b
  /\ use_const_inf_matrix' = b
  /\ Returned("load", 1, Zero, 0, <<>>, <<>>, <<>>, FALSE, FALSE)
  /\ UNCHANGED <<X, Y, relpose, floor_height, max_range,
                 kd_tree_, inliers, ncalls, pc, ctlVars>>

\* two callers share kd_tree_; each rebuilds it over its own map cloud and
\* then scores the other cloud against that map
CallerRebuild(c) ==
  /\ ~fault
  /\ pc[c] = "idle"
  /\ kd_tree_' = CallerMap(c)
  /\ pc' = [pc EXCEPT ![c] = "rebuilt"]
  /\ Returned("rebuild_kd_tree", c, Zero, 0, <<>>, <<>>, <<>>, FALSE, FALSE)
  /\ UNCHANGED <<X, Y, relpose, floor_height, max_range, use_const_inf_matrix,
                 inliers, ncalls, ctlVars>>

CallerFitnessScore(c) ==
  /\ pc[c] = "rebuilt"
  /\ ncalls < MaxCalls
  /\ ncalls' = ncalls + 1
  /\ DoFitnessScore(c, CallerMap(c), CallerScan(c), <<>>)
  /\ pc' = [pc EXCEPT ![c] = "idle"]

----------------------------------------------------------------------------
(* Specifications of the estimator *)

CtlIdle ==
  /\ mInitialized = FALSE /\ mFailureLocalizeCount = 0 /\ ctl = "Uninitialized"
  /\ threshold = 0 /\ seeded = FALSE /\ prior = FALSE /\ mPoseQueue = 0
  /\ frame = [count |-> 0, localizer |-> 0, global |-> 0, outcome |-> "none"]

\* the state after construction, for two clouds
Constructed ==
  /\ X \in Clouds /\ Y \in Clouds
  /\ use_const_inf_matrix = FALSE
  /\ kd_tree_ = <<>> /\ inliers = <<>> /\ ncalls = 0
  /\ op = "none" /\ who = 1 /\ ret = Zero /\ nr = 0
  /\ nn = <<>> /\ inliers0 = <<>> /\ inf = <<>> /\ scored = FALSE
  /\ fault = FALSE
  /\ pc = [c \in Callers |-> "idle"]
  /\ CtlIdle

\* every call of the run passes the same pose, floor height and range
Init ==
  /\ Constructed
  /\ relpose \in Poses
  /\ floor_height \in FloorHeights
  /\ max_range \in MaxRanges

\* one caller: the shared index, the two fitness scores, a container that is
\* handed in again
Next ==
  \/ \E c \in {X, Y} : RebuildKdTree(c)
  \/ CalcFitnessScore
  \/ \E reuse \in BOOLEAN : FitnessScoreAgain(reuse)

Spec == Init /\ [][Next]_vars

\* the information matrices; no operation of theirs reads the floor height
MatrixInit == Init /\ floor_height = One

MatrixNext ==
  \/ CalcFitnessScore
  \/ CalcInformationMatrix
  \/ ConstInformationMatrix
  \/ \E b \in BOOLEAN : Load(b)

MatrixSpec == MatrixInit /\ [][MatrixNext]_vars

\* the anomaly inliers of single calls, on a container that is empty or not
PriorIndices == { <<>>, <<0>> }

InlierNext ==
  \/ \E c \in {X, Y} : RebuildKdTree(c)
  \/ \E indices \in PriorIndices : FitnessScore(indices)

InlierSpec == Init /\ [][InlierNext]_vars

\* two callers of the shared index
CallersNext == \E c \in Callers : CallerRebuild(c) \/ CallerFitnessScore(c)

CallersSpec == Init /\ [][CallersNext]_vars

----------------------------------------------------------------------------
(* Localization: the controller of feedPointData *)

\* the estimator at rest
EstIdle ==
  /\ X = <<>> /\ Y = <<>>
  /\ relpose = "Identity" /\ floor_height = Zero /\ max_range = default_max_range
  /\ use_const_inf_matrix = FALSE
  /\ kd_tree_ = <<>> /\ inliers = <<>> /\ ncalls = 0
  /\ op = "none" /\ who = 1 /\ ret = Zero /\ nr = 0
  /\ nn = <<>> /\ inliers0 = <<>> /\ inf = <<>> /\ scored = FALSE
  /\ fault = FALSE
  /\ pc = [c \in Callers |-> "idle"]

\* mPoseQueue keeps the newest MaxQueue poses
Push(q) == IF q < MaxQueue THEN q + 1 ELSE MaxQueue

\* what a frame did: the counter it found, the calls it made, how it ended
Frame(count, localizer, global, outcome) ==
  frame' = [count |-> count, localizer |-> localizer, global |-> global,
            outcome |-> outcome]

\* init(config): a valid configuration starts the map update thread
init(valid) ==
  /\ ctl = "Uninitialized"
  /\ valid
  /\ ctl' = "Initializing"
  /\ UNCHANGED <<mInitialized, mFailureLocalizeCount, threshold, seeded, prior,
                 mPoseQueue, frame, estVars>>

setInitPose ==
  /\ ctl = "Initializing"
  /\ ~seeded
  /\ seeded' = TRUE
  /\ UNCHANGED <<mInitialized, mFailureLocalizeCount, ctl, threshold, prior,
                 mPoseQueue, frame, estVars>>

\* feedInsData, feedImuData: a prediction for the next registration, and no
\* transition of the controller
feedInsData ==
  /\ ctl # "Uninitialized"
  /\ ~prior
  /\ prior' = TRUE
  /\ UNCHANGED <<mInitialized, mFailureLocalizeCount, ctl, threshold, seeded,
                 mPoseQueue, frame, estVars>>

\* a frame that runs the Localizer before the GlobalLocator of the fallback
feedPointData_LocalizerFirst(ok) ==
  /\ ctl \in {"Initializing", "Tracking", "Degraded", "Relocalizing"}
  /\ ctl = "Initializing" => seeded
  /\ IF ctl = "Initializing"
     THEN /\ Frame(mFailureLocalizeCount, 1, 0, IF ok THEN "init_ok" ELSE "init_fail")
          /\ ctl' = IF ok THEN "Tracking" ELSE "Initializing"
          /\ mInitialized' = ok
          /\ mFailureLocalizeCount' = IF ok THEN 0 ELSE mFailureLocalizeCount
          /\ mPoseQueue' = IF ok THEN Push(mPoseQueue) ELSE mPoseQueue
     ELSE IF mFailureLocalizeCount > threshold
     THEN /\ Frame(mFailureLocalizeCount, 1, 1, IF ok THEN "reloc_ok" ELSE "reloc_fail")
          /\ ctl' = IF ok THEN "Tracking" ELSE "Relocalizing"
          /\ mInitialized' = ok
          /\ mFailureLocalizeCount' = IF ok THEN 0 ELSE mFailureLocalizeCount
          /\ mPoseQueue' = IF ok THEN Push(mPoseQueue) ELSE mPoseQueue
     ELSE /\ Frame(mFailureLocalizeCount, 1, 0, IF ok THEN "track_ok" ELSE "track_fail")
          /\ ctl' = IF ok THEN "Tracking" ELSE "Degraded"
          /\ mInitialized' = mInitialized
          /\ mFailureLocalizeCount' = IF ok THEN 0 ELSE mFailureLocalizeCount + 1
          /\ mPoseQueue' = Push(mPoseQueue)
  /\ prior' = IF frame'.localizer > 0 THEN FALSE ELSE prior
  /\ UNCHANGED <<threshold, seeded, estVars>>

\* feedPointData(timestamp, points); ok: the registration or relocalization
\* of this frame succeeded
feedPointData(ok) ==
  /\ ctl \in {"Initializing", "Tracking", "Degraded", "Relocalizing"}
  /\ ctl = "Initializing" => seeded
  /\ IF ctl = "Initializing"
     THEN \* the first registration against the seeded region
          /\ Frame(mFailureLocalizeCount, 1, 0, IF ok THEN "init_ok" ELSE "init_fail")
          /\ ctl' = IF ok THEN "Tracking" ELSE "Initializing"
          /\ mInitialized' = ok
          /\ mFailureLocalizeCount' = IF ok THEN 0 ELSE mFailureLocalizeCount
          /\ mPoseQueue' = IF ok THEN Push(mPoseQueue) ELSE mPoseQueue
     ELSE IF mFailureLocalizeCount > threshold
     THEN \* the fallback: the GlobalLocator, and no Localizer
          /\ Frame(mFailureLocalizeCount, 0, 1, IF ok THEN "reloc_ok" ELSE "reloc_fail")
          /\ ctl' = IF ok THEN "Tracking" ELSE "Relocalizing"
          /\ mInitialized' = ok
          /\ mFailureLocalizeCount' = IF ok THEN 0 ELSE mFailureLocalizeCount
          /\ mPoseQueue' = IF ok THEN Push(mPoseQueue) ELSE mPoseQueue
     ELSE \* tracking: the Localizer against the local map
          /\ Frame(mFailureLocalizeCount, 1, 0, IF ok THEN "track_ok" ELSE "track_fail")
          /\ ctl' = IF ok THEN "Tracking" ELSE "Degraded"
          /\ mInitialized' = mInitialized
          /\ mFailureLocalizeCount' = IF ok THEN 0 ELSE mFailureLocalizeCount + 1
          /\ mPoseQueue' = Push(mPoseQueue)
  /\ prior' = IF frame'.localizer > 0 THEN FALSE ELSE prior
  /\ UNCHANGED <<threshold, seeded, estVars>>

\* runUpdateLocalMap: the map update thread takes a pose off mPoseQueue
runUpdateLocalMap ==
  /\ ctl # "Uninitialized"
  /\ mPoseQueue > 0
  /\ mPoseQueue' = mPoseQueue - 1
  /\ UNCHANGED <<mInitialized, mFailureLocalizeCount, ctl, threshold, seeded, prior,
                 frame, estVars>>

ControllerInit ==
  /\ EstIdle
  /\ mInitialized = FALSE /\ mFailureLocalizeCount = 0 /\ ctl = "Uninitialized"
  /\ threshold \in 0..MaxThreshold
  /\ seeded = FALSE /\ prior = FALSE /\ mPoseQueue = 0
  /\ frame = [count |-> 0, localizer |-> 0, global |-> 0, outcome |-> "none"]

ControllerNext ==
  \/ \E valid \in BOOLEAN : init(valid)
  \/ setInitPose
  \/ feedInsData
  \/ \E ok \in BOOLEAN : feedPointData(ok)
  \/ runUpdateLocalMap

ControllerSpec == ControllerInit /\ [][ControllerNext]_vars

----------------------------------------------------------------------------
(* The claims *)

\* the scan points a rule accepts: those whose transformed image lies within
\* `range` of its nearest point of the map cloud
RuleAccepted(c1, c2, pose, range) ==
  { i \in 1..Len(c2) :
      RatLE(nearestKSearchDist(c1, transformPoint(c2[i], pose)), range) }

RECURSIVE RuleSum(_, _, _, _)
RuleSum(c1, c2, pose, S) ==
  IF S = {} THEN Zero
  ELSE LET i == CHOOSE k \in S : TRUE
       IN  RatAdd(nearestKSearchDist(c1, transformPoint(c2[i], pose)),
                  RuleSum(c1, c2, pose, S \ {i}))

RuleValue(c1, c2, pose, range) ==
  LET S == RuleAccepted(c1, c2, pose, range)
  IN  IF S = {} THEN Sentinel
      ELSE RatDiv(RuleSum(c1, c2, pose, S), R(Cardinality(S), 1))

\* C1: calc_fitness_score, and fitness_score on an index built over its map
\* cloud, return the mean nearest-neighbour distance of the accepted
\* transformed scan points, the maximum double exactly when none is accepted,
\* and nr is the number of accepted points.
C1_MeanOfAccepted ==
  (/\ op \in {"calc_fitness_score", "fitness_score"}
   /\ ~fault
   /\ op = "fitness_score" => kd_tree_ = cloud1)
  => /\ RatEq(ret, RuleValue(cloud1, cloud2, relpose, max_range))
     /\ nr = Cardinality(RuleAccepted(cloud1, cloud2, relpose, max_range))
     /\ RatEq(ret, Sentinel) <=> nr = 0

\* C2 as stated: calc_fitness_score(C, C, identity, max_range >= 0) is 0 for
\* every cloud C, the empty one included.
C2_AnySameCloudScoresZero ==
  (/\ op = "calc_fitness_score" /\ ~fault
   /\ X = Y /\ relpose = "Identity" /\ RatLE(Zero, max_range))
  => RatEq(ret, Zero)

\* C2 as amended: calc_fitness_score(C, C, identity, max_range >= 0) is 0 for
\* every cloud C that holds a point.
C2_SameCloudScoresZero ==
  (/\ op = "calc_fitness_score" /\ ~fault
   /\ X = Y /\ Len(X) > 0 /\ relpose = "Identity" /\ RatLE(Zero, max_range))
  => RatEq(ret, Zero)

C2_Witness ==
  /\ op = "calc_fitness_score" /\ ~fault
  /\ X = Y /\ Len(X) = 2 /\ relpose = "Identity" /\ max_range = Zero
  /\ ret = Zero /\ nr = 2

\* diag(1/x, 1/x, 1/x, 1/q, 1/q, 1/q)
Diagonal(x, q) ==
  [i \in 1..6 |-> [j \in 1..6 |->
     IF i # j THEN Zero ELSE IF i <= 3 THEN RatDiv(One, x) ELSE RatDiv(One, q)]]

\* C3: in constant mode calc_information_matrix returns, whatever the clouds
\* and the pose, the diagonal matrix of 1/const_stddev_x and 1/const_stddev_q,
\* which is const_information_matrix(), and computes no fitness score.
C3_ConstantMode ==
  (op = "calc_information_matrix" /\ use_const_inf_matrix)
  => /\ ~fault
     /\ inf = Diagonal(const_stddev_x, const_stddev_q)
     /\ inf = const_information_matrix
     /\ ~scored

C3_Witness ==
  /\ op = "calc_information_matrix" /\ use_const_inf_matrix
  /\ Len(X) = 0 /\ Len(Y) > 0 /\ relpose = "RollX"
  /\ inf[1][1] = R(2, 1) /\ inf[6][6] = R(10, 1)

WeightWithin(w, min_stddev, max_stddev) ==
  /\ RatLE(RatMul(min_stddev, min_stddev), w)
  /\ RatLE(w, RatMul(max_stddev, max_stddev))

\* C4: in both modes, the sentinel score included, a calc_information_matrix
\* that returns gives a matrix whose off-diagonal entries are 0 and whose diagonal
\* entries are positive and finite; in fitness-based mode they are
\* 1/w_translation and 1/w_rotation, the weights lying within their bounds.
C4_DiagonalPositive ==
  (op = "calc_information_matrix" /\ ~fault)
  => LET score == calc_fitness_score(X, Y, relpose, default_max_range).ret
         w_x == WeightX(score)
         w_q == WeightQ(score)
     IN  /\ \A i, j \in 1..6 : i # j => inf[i][j] = Zero
         /\ \A i \in 1..6 : inf[i][i].n > 0 /\ inf[i][i].d > 0
         /\ (/\ ~use_const_inf_matrix
             /\ WeightWithin(w_x, min_stddev_x, max_stddev_x)
             /\ WeightWithin(w_q, min_stddev_q, max_stddev_q))
              => /\ scored
                 /\ \A i \in 1..3 : inf[i][i] = RatDiv(One, w_x)
                 /\ \A i \in 4..6 : inf[i][i] = RatDiv(One, w_q)

C4_Witness ==
  /\ op = "calc_information_matrix" /\ ~fault /\ ~use_const_inf_matrix
  /\ Len(Y) = 0 /\ ret = Sentinel
  /\ inf[1][1] = R(1, 25) /\ inf[4][4] = R(25, 1) /\ inf[1][4] = Zero

\* 1/max_stddev^2 <= e <= 1/min_stddev^2
EntryWithin(e, min_stddev, max_stddev) ==
  /\ RatLE(RatDiv(One, RatMul(max_stddev, max_stddev)), e)
  /\ RatLE(e, RatDiv(One, RatMul(min_stddev, min_stddev)))

\* C5: every matrix of calc_information_matrix and const_information_matrix
\* has its translation entries within [1/max_stddev_x^2, 1/min_stddev_x^2]
\* and its rotation entries within [1/max_stddev_q^2, 1/min_stddev_q^2].
C5_WithinVarianceRange ==
  (op \in {"calc_information_matrix", "const_information_matrix"} /\ ~fault)
  => /\ \A i \in 1..3 : EntryWithin(inf[i][i], min_stddev_x, max_stddev_x)
     /\ \A i \in 4..6 : EntryWithin(inf[i][i], min_stddev_q, max_stddev_q)

\* scan point i and the map point its search reported, in the common frame
ScanInFrame(i) == transformPoint(cloud2[i], relpose)
MapInFrame(i) == transformPoint(cloud1[nn[i] + 1], relpose)

\* metres, from grid units
Metres(v) == R(v, 20)

\* within sqrt(10) m horizontally, both below floor_height + 2 m, more than
\* 0.25 m apart in height
Flagged(i) ==
  LET p1 == MapInFrame(i)
      p2 == ScanInFrame(i)
      ceiling == RatAdd(floor_height, R(2, 1))
  IN  /\ (p1[1] - p2[1]) * (p1[1] - p2[1]) + (p1[2] - p2[2]) * (p1[2] - p2[2])
           <= 10 * 400
      /\ RatLT(Metres(p1[3]), ceiling) /\ RatLT(Metres(p2[3]), ceiling)
      /\ 4 * Abs(p1[3] - p2[3]) > 20

\* the indices a call appended to the container
Appended == { inliers[k] : k \in (Len(inliers0) + 1)..Len(inliers) }

\* a pair with no horizontal offset, both points below the floor height
BelowFloorPair(i, gap) ==
  LET p1 == MapInFrame(i)
      p2 == ScanInFrame(i)
  IN  /\ p1[1] = p2[1] /\ p1[2] = p2[2]
      /\ RatLT(Metres(p1[3]), floor_height) /\ RatLT(Metres(p2[3]), floor_height)
      /\ Abs(p1[3] - p2[3]) = gap

\* C6: a fitness_score that returns has appended scan index i exactly when scan point i and the
\* map point its search reported (the nearest one when the index is built
\* over the map cloud) are, in the common frame, at most 10 m^2 apart
\* horizontally, both below floor_height + 2 and more than 0.25 apart in
\* height, accepted under max_range or not; a pair 0.5 m apart in height is
\* flagged and one 0.1 m apart is not.
C6_AnomalyInliers ==
  (op = "fitness_score" /\ ~fault)
  => /\ Len(nn) = Len(cloud2)
     /\ Len(inliers) >= Len(inliers0)
     /\ \A k \in 1..Len(inliers0) : inliers[k] = inliers0[k]
     /\ Appended = { i - 1 : i \in { j \in 1..Len(cloud2) : Flagged(j) } }
     /\ \A k, l \in (Len(inliers0) + 1)..Len(inliers) : k < l => inliers[k] < inliers[l]
     /\ kd_tree_ = cloud1 =>
          \A i \in 1..Len(cloud2) : \A j \in 1..Len(cloud1) :
             SqDist(cloud1[nn[i] + 1], cloud2[i]) <= SqDist(cloud1[j], cloud2[i])
     /\ \A i \in 1..Len(cloud2) :
          /\ BelowFloorPair(i, 10) => (i - 1) \in Appended
          /\ BelowFloorPair(i, 2) => (i - 1) \notin Appended

\* a flagged pair 0.5 m apart that max_range rejects, beside an unflagged
\* pair 0.1 m apart
C6_Witness ==
  /\ op = "fitness_score" /\ ~fault /\ kd_tree_ = cloud1
  /\ \E i, j \in 1..Len(cloud2) :
       /\ BelowFloorPair(i, 10) /\ (i - 1) \in Appended
       /\ BelowFloorPair(j, 2) /\ (j - 1) \notin Appended
       /\ ~RatLE(R(SqDist(cloud1[nn[i] + 1], cloud2[i]), 400), max_range)

\* C7: a frame that finds the failure counter above the threshold invokes the
\* GlobalLocator once and the Localizer not at all, and a frame whose
\* tracking succeeds leaves the failure counter at 0.
C7_FallbackThenReset ==
  /\ (frame.outcome # "none" /\ frame.count > threshold)
       => frame.global = 1 /\ frame.localizer = 0
  /\ frame.outcome \in {"track_ok", "reloc_ok"} => mFailureLocalizeCount = 0
  /\ frame.count <= threshold => frame.global = 0

C7_Witness ==
  /\ frame.outcome = "reloc_fail" /\ frame.count > threshold
  /\ frame.global = 1 /\ frame.localizer = 0
  /\ mFailureLocalizeCount = threshold + 1 /\ threshold > 0

\* C8: on an index just rebuilt over the map cloud, fitness_score returns the
\* value and the count of accepted points that calc_fitness_score computes
\* for the same clouds, pose and max_range.
C8_SameAsCalcFitnessScore ==
  (op = "fitness_score" /\ ~fault /\ kd_tree_ = cloud1)
  => LET out == calc_fitness_score(cloud1, cloud2, relpose, max_range)
     IN  RatEq(ret, out.ret) /\ nr = out.nr

\* C9: when a caller that rebuilt the index over its map cloud calls
\* fitness_score, every index the search reports is an index of that map
\* cloud and names its point nearest to the scan point.
C9_IndexOfCallersMap ==
  (op = "fitness_score" /\ Len(cloud1) > 0)
  => \A i \in 1..Len(nn) :
       /\ nn[i] < Len(cloud1)
       /\ \A j \in 1..Len(cloud1) :
            SqDist(cloud1[nn[i] + 1], cloud2[i]) <= SqDist(cloud1[j], cloud2[i])

\* C10: when fitness_score returns, the container holds exactly the indices
\* this call flagged: each within the scan cloud, in increasing order, none
\* twice, none left from an earlier call.
C10_OnlyThisCall ==
  (op = "fitness_score" /\ ~fault)
  => /\ \A k \in 1..Len(inliers) : inliers[k] \in 0..(Len(cloud2) - 1)
     /\ \A k, l \in 1..Len(inliers) : k < l => inliers[k] < inliers[l]
     /\ { inliers[k] : k \in 1..Len(inliers) }
          = { i - 1 : i \in { j \in 1..Len(cloud2) : Flagged(j) } }

====
